---- MODULE Spec2Model ----
(***************************************************************************)
(* NYC congestion pricing audit: pipeline.py (detect_ghost_trips,          *)
(* analyze_congestion_zone, create_summary_stats, main) and                *)
(* src/scraper.py (TLCScraper.download_month, TLCScraper.process_file).    *)
(*                                                                         *)
(* A table (pandas DataFrame) is a record                                  *)
(*    [columns : set of column names, rows : sequence of rows]             *)
(* and a row is [index : the row's index label, data : column -> value].   *)
(* A float / datetime cell is a record [k, n, d]: k = "fin" is the         *)
(* rational n/d (d > 0), k = "nan" is NaN / NaT / null, k = "inf" and      *)
(* k = "ninf" are the IEEE infinities.  Rounding is not modelled.          *)
(* Location cells are integers and flag cells are booleans.                *)
(***************************************************************************)
EXTENDS Integers, Sequences, FiniteSets, TLC

VARIABLES
    pc,                     \* where the caller stands
    CONGESTION_ZONE_IDS,    \* the module-level list of pipeline.py
    fs,                     \* the files: data/raw, data/processed, outputs
    file,                   \* main: what download_month returned
    df,                     \* the table handed to detect_ghost_trips
    clean_df,               \* its first result; analyze_congestion_zone's argument
    ghost_df,               \* its second result
    raised,                 \* the exception the last call raised, or "none"
    ghost_report,           \* what detect_ghost_trips printed
    zone_report,            \* what analyze_congestion_zone computed and printed
    summary,                \* what create_summary_stats printed
    remote                  \* the monthly file the TLC server holds (a raw table)

vars == <<pc, CONGESTION_ZONE_IDS, fs, file, df, clean_df, ghost_df, raised,
          ghost_report, zone_report, summary, remote>>

----------------------------------------------------------------------------
(* Bounds of the model *)

MaxWideRows == 1    \* rows of a table drawn from every combination of cell values
MaxRows == 3        \* rows of a table drawn from the sample rows of detect_ghost_trips
MaxZoneRows == 4    \* rows of a table drawn from the sample rows of analyze_congestion_zone
MaxRawRows == 1     \* rows of the remote monthly file that main downloads
NumChunks == 2      \* 8192-byte chunks of the remote monthly file

----------------------------------------------------------------------------
(* Cells: floats with NaN and infinities *)

Frac(n, d) == [k |-> "fin", n |-> n, d |-> d]
Num(n) == Frac(n, 1)
NaN == [k |-> "nan", n |-> 0, d |-> 1]
PosInf == [k |-> "inf", n |-> 0, d |-> 1]
NegInf == [k |-> "ninf", n |-> 0, d |-> 1]

IsNaN(a) == a.k = "nan"
IsFin(a) == a.k = "fin"

\* a > b as IEEE 754 / pandas evaluate it: any comparison with NaN is False
Gt(a, b) ==
    IF IsNaN(a) \/ IsNaN(b) THEN FALSE
    ELSE IF a.k = "ninf" \/ b.k = "inf" THEN FALSE
    ELSE IF a.k = "inf" \/ b.k = "ninf" THEN TRUE
    ELSE a.n * b.d > b.n * a.d

Lt(a, b) == Gt(b, a)

\* a == b: NaN equals nothing, not even NaN
Eq(a, b) ==
    IF IsNaN(a) \/ IsNaN(b) THEN FALSE
    ELSE IF IsFin(a) /\ IsFin(b) THEN a.n * b.d = b.n * a.d
    ELSE a.k = b.k

Ge(a, b) == Gt(a, b) \/ Eq(a, b)

Sign(a) ==
    IF a.k = "inf" THEN 1
    ELSE IF a.k = "ninf" THEN -1
    ELSE IF a.n > 0 THEN 1 ELSE IF a.n < 0 THEN -1 ELSE 0

Signed(s) == IF s > 0 THEN PosInf ELSE IF s < 0 THEN NegInf ELSE NaN

\* a - b
Sub(a, b) ==
    IF IsNaN(a) \/ IsNaN(b) THEN NaN
    ELSE IF IsFin(a) /\ IsFin(b) THEN Frac(a.n * b.d - b.n * a.d, a.d * b.d)
    ELSE IF IsFin(b) THEN a
    ELSE IF IsFin(a) THEN Signed(-Sign(b))
    ELSE IF a.k = b.k THEN NaN ELSE a

\* a + b
Add(a, b) ==
    IF IsNaN(a) \/ IsNaN(b) THEN NaN
    ELSE IF IsFin(a) /\ IsFin(b) THEN Frac(a.n * b.d + b.n * a.d, a.d * b.d)
    ELSE IF IsFin(b) THEN a
    ELSE IF IsFin(a) THEN b
    ELSE IF a.k = b.k THEN a ELSE NaN

\* a / b as numpy float64 division: x/0 is +-inf, 0/0 is NaN, nothing raises
Div(a, b) ==
    IF IsNaN(a) \/ IsNaN(b) THEN NaN
    ELSE IF IsFin(a) /\ IsFin(b) THEN
        IF b.n = 0 THEN Signed(Sign(a))
        ELSE IF b.n > 0 THEN Frac(a.n * b.d, a.d * b.n)
        ELSE Frac(-(a.n * b.d), a.d * (-b.n))
    ELSE IF IsFin(a) THEN Num(0)
    ELSE IF IsFin(b) THEN Signed(Sign(a) * (IF b.n < 0 THEN -1 ELSE 1))
    ELSE NaN

----------------------------------------------------------------------------
(* Tables *)

Table(cols, rws) == [columns |-> cols, rows |-> rws]
Row(i, d) == [index |-> i, data |-> d]
NoTable == Table({}, <<>>)

Len0(t) == Len(t.rows)

\* df[name]: the column as a series, one cell per row
Column(t, name) == [i \in DOMAIN t.rows |-> t.rows[i].data[name]]

\* df[mask] for a boolean series mask: the rows whose mask is True, order and index
\* labels kept
Filter(t, mask) ==
    LET upto[i \in 0..Len(t.rows)] ==
            IF i = 0 THEN <<>>
            ELSE IF mask[i] THEN Append(upto[i - 1], t.rows[i]) ELSE upto[i - 1]
    IN  Table(t.columns, upto[Len(t.rows)])

\* mask.sum(): how many cells of the boolean series are True
CountTrue(mask) == Cardinality({i \in DOMAIN mask : mask[i]})

\* ~mask
Not(mask) == [i \in DOMAIN mask |-> ~mask[i]]

Restrict(d, cols) == [c \in cols |-> d[c]]

\* the table with the columns cols whose i-th row has the cells f[i] of those
\* columns, with a RangeIndex 0, 1, ...
MakeTable(cols, f) == Table(cols, [i \in DOMAIN f |-> Row(i - 1, Restrict(f[i], cols))])

\* every table of at most n rows over the row values RowValues
TablesOver(cols, RowValues, n) ==
    { MakeTable(cols, f) : f \in UNION { [1..k -> RowValues] : k \in 0..n } }

----------------------------------------------------------------------------
(* pipeline.py: detect_ghost_trips *)

GhostColumns == <<"avg_speed", "trip_duration", "fare", "trip_distance">>

\* faulty variant of mask_speed: >= 65 for > 65
mask_speed_ge(t) == [i \in DOMAIN t.rows |-> Ge(Column(t, "avg_speed")[i], Num(65))]

\* 1. Impossible speed (>65 MPH)
mask_speed(t) == [i \in DOMAIN t.rows |-> Gt(Column(t, "avg_speed")[i], Num(65))]

\* 2. Teleporter (<1 min, >$20 fare)
mask_teleport(t) ==
    [i \in DOMAIN t.rows |->
        Lt(Column(t, "trip_duration")[i], Num(1)) /\ Gt(Column(t, "fare")[i], Num(20))]

\* 3. Stationary (0 distance, >$0 fare)
mask_stationary(t) ==
    [i \in DOMAIN t.rows |->
        Eq(Column(t, "trip_distance")[i], Num(0)) /\ Gt(Column(t, "fare")[i], Num(0))]

\* mask_speed | mask_teleport | mask_stationary
ghost_mask(t) ==
    [i \in DOMAIN t.rows |->
        mask_speed(t)[i] \/ mask_teleport(t)[i] \/ mask_stationary(t)[i]]

\* faulty variant of not_ghost_mask: the complement of the speed mask alone
not_ghost_mask_speed_only(t) == Not(mask_speed(t))

\* ~ghost_mask
not_ghost_mask(t) == Not(ghost_mask(t))

\* the columns of cols (in the order the code reads them) that t lacks
MissingOf(t, cols) == SelectSeq(cols, LAMBDA c : c \notin t.columns)

NoGhostReport ==
    [lines |-> 0, speed_count |-> 0, teleport_count |-> 0,
     stationary_count |-> 0, removed |-> 0, pct |-> NaN]

\* What a call detect_ghost_trips(t) does: the exception it raises ("none" when it
\* returns), the pair it returns and the lines it printed before that.
detect_ghost_trips(t) ==
    IF MissingOf(t, GhostColumns) # <<>> THEN
        \* df['<column>'] raises KeyError at the first mask that reads it
        [raised |-> "KeyError", clean_df |-> NoTable, ghost_df |-> NoTable,
         report |-> NoGhostReport]
    ELSE
        LET ghost == Filter(t, ghost_mask(t))
            clean == Filter(t, not_ghost_mask(t))
            counts == [NoGhostReport EXCEPT
                          !.lines = 3,
                          !.speed_count = CountTrue(mask_speed(t)),
                          !.teleport_count = CountTrue(mask_teleport(t)),
                          !.stationary_count = CountTrue(mask_stationary(t))]
        IN  IF Len0(t) = 0 THEN
                \* len(ghost_df) / len(df): int / int with len(df) == 0
                [raised |-> "ZeroDivisionError", clean_df |-> NoTable,
                 ghost_df |-> NoTable, report |-> counts]
            ELSE
                [raised |-> "none", clean_df |-> clean, ghost_df |-> ghost,
                 report |-> [counts EXCEPT
                                !.lines = 4,
                                !.removed = Len0(ghost),
                                !.pct = Frac(Len0(ghost) * 100, Len0(t))]]

----------------------------------------------------------------------------
(* The tables handed directly to detect_ghost_trips *)

SpeedValues == {NaN, Num(65), Num(70)}
DurationValues == {NaN, Frac(1, 2), Num(1)}
FareValues == {NaN, Num(0), Num(20), Num(25)}
DistanceValues == {NaN, Num(0), Num(5)}

GhostRowValues ==
    [avg_speed : SpeedValues, trip_duration : DurationValues,
     fare : FareValues, trip_distance : DistanceValues]

Range(s) == {s[i] : i \in DOMAIN s}

\* the four records of the audit's worked example (rule 1, rule 2, rule 3, clean),
\* a record that matches all three rules and one with every cell null
GhostSampleRows ==
    { [avg_speed |-> Num(70), trip_duration |-> Num(10), fare |-> Num(15),
       trip_distance |-> Num(5)],
      [avg_speed |-> Num(30), trip_duration |-> Frac(1, 2), fare |-> Num(25),
       trip_distance |-> Num(1)],
      [avg_speed |-> Num(0), trip_duration |-> Num(5), fare |-> Num(8),
       trip_distance |-> Num(0)],
      [avg_speed |-> Num(20), trip_duration |-> Num(15), fare |-> Num(30),
       trip_distance |-> Num(5)],
      [avg_speed |-> Num(70), trip_duration |-> Frac(1, 2), fare |-> Num(25),
       trip_distance |-> Num(0)],
      [avg_speed |-> NaN, trip_duration |-> NaN, fare |-> NaN, trip_distance |-> NaN] }

\* the column sets: all of cols, and cols without one of them
ColumnSets(cols) == {Range(cols)} \cup {Range(cols) \ {c} : c \in Range(cols)}

----------------------------------------------------------------------------
(* pipeline.py: CONGESTION_ZONE_IDS and analyze_congestion_zone *)

\* faulty variant of ZoneIds: the list without its last three identifiers
ZoneIdsShort ==
    << 4, 12, 13, 24, 41, 42, 43, 45, 48, 50, 68, 74, 75, 79, 87, 88, 90, 100, 103,
       107, 113, 114, 116, 120, 125, 127, 128, 137, 140, 141, 142, 143, 144, 148, 151,
       152, 153, 158, 161, 162, 163, 164, 166, 170, 186, 194, 202, 209, 211, 224, 229,
       230, 231, 232, 233, 234, 236, 237, 238, 239, 243, 244, 246, 249 >>

\* Congestion Zone: Manhattan South of 60th St (the list as the module writes it)
ZoneIds ==
    << 4, 12, 13, 24, 41, 42, 43, 45, 48, 50, 68, 74, 75, 79, 87, 88, 90, 100, 103,
       107, 113, 114, 116, 120, 125, 127, 128, 137, 140, 141, 142, 143, 144, 148, 151,
       152, 153, 158, 161, 162, 163, 164, 166, 170, 186, 194, 202, 209, 211, 224, 229,
       230, 231, 232, 233, 234, 236, 237, 238, 239, 243, 244, 246, 249, 261, 262, 263 >>

\* '2025-01-05' as a timestamp: seconds from 2025-01-01 00:00:00 to 2025-01-05 00:00:00
CutoffSeconds == 345600

ZoneColumns == <<"pickup_loc", "dropoff_loc", "pickup_time", "congestion_surcharge">>

\* df[name] = series: adds the column (or overwrites it), in place
WithColumn(t, name, series) ==
    Table(t.columns \cup {name},
          [i \in DOMAIN t.rows |->
              Row(t.rows[i].index,
                  [c \in t.columns \cup {name} |->
                      IF c = name THEN series[i] ELSE t.rows[i].data[c]])])

\* df[name].isin(values)
isin(t, name, values) ==
    [i \in DOMAIN t.rows |-> \E j \in DOMAIN values : values[j] = Column(t, name)[i]]

\* (~df['pickup_in_zone']) & (df['dropoff_in_zone'])
enters_zone(t) ==
    [i \in DOMAIN t.rows |->
        (~Column(t, "pickup_in_zone")[i]) /\ Column(t, "dropoff_in_zone")[i]]

\* faulty variant of post_toll_mask: > for >=
post_toll_mask_gt(t) ==
    [i \in DOMAIN t.rows |-> Gt(Column(t, "pickup_time")[i], Num(CutoffSeconds))]

\* df['pickup_time'] >= '2025-01-05'
post_toll_mask(t) ==
    [i \in DOMAIN t.rows |-> Ge(Column(t, "pickup_time")[i], Num(CutoffSeconds))]

\* zone_entries['congestion_surcharge'] > 0
compliant_mask(t) ==
    [i \in DOMAIN t.rows |-> Gt(Column(t, "congestion_surcharge")[i], Num(0))]

\* zone_entries['congestion_surcharge'] == 0
non_compliant_mask(t) ==
    [i \in DOMAIN t.rows |-> Eq(Column(t, "congestion_surcharge")[i], Num(0))]

\* ascending list of a finite set of integers
RECURSIVE SortedSeq(_)
SortedSeq(S) ==
    IF S = {} THEN <<>>
    ELSE LET m == CHOOSE x \in S : \A y \in S : x <= y
         IN  <<m>> \o SortedSeq(S \ {m})

\* t.groupby('pickup_loc').size(): one entry per location, keys ascending
groupby_size(t) ==
    LET keys == SortedSeq({t.rows[i].data["pickup_loc"] : i \in DOMAIN t.rows})
    IN  [j \in DOMAIN keys |->
            [loc |-> keys[j],
             count |-> Cardinality({i \in DOMAIN t.rows :
                                       t.rows[i].data["pickup_loc"] = keys[j]})]]

RemoveAt(s, i) == [j \in 1..(Len(s) - 1) |-> IF j < i THEN s[j] ELSE s[j + 1]]

\* series.nlargest(n), keep='first': the n largest counts in descending order,
\* equal counts in their order of appearance
RECURSIVE nlargest(_, _)
nlargest(s, n) ==
    IF n = 0 \/ s = <<>> THEN <<>>
    ELSE LET i == CHOOSE a \in DOMAIN s :
                      /\ \A b \in DOMAIN s : s[b].count <= s[a].count
                      /\ \A b \in DOMAIN s : s[b].count = s[a].count => a <= b
         IN  <<s[i]>> \o nlargest(RemoveAt(s, i), n - 1)

NoZoneReport ==
    [entries |-> <<>>, printed |-> {}, n_entries |-> 0, n_compliant |-> 0,
     compliance_rate |-> NaN, top_leakage |-> <<>>]

IndexOf(t) == [i \in DOMAIN t.rows |-> t.rows[i].index]

\* What a call analyze_congestion_zone(t) does with the zone list zone: the
\* exception it raises ("none" when it returns), the table t as the call leaves it
\* (the three flag columns are added in place), and what it computed and printed:
\* entries is the index of zone_entries, printed the lines written to stdout.
analyze_congestion_zone(t, zone) ==
    IF "pickup_loc" \notin t.columns THEN
        [raised |-> "KeyError", df |-> t, report |-> NoZoneReport]
    ELSE
    LET t1 == WithColumn(t, "pickup_in_zone", isin(t, "pickup_loc", zone))
    IN
    IF "dropoff_loc" \notin t.columns THEN
        [raised |-> "KeyError", df |-> t1, report |-> NoZoneReport]
    ELSE
    LET t2 == WithColumn(t1, "dropoff_in_zone", isin(t1, "dropoff_loc", zone))
        t3 == WithColumn(t2, "enters_zone", enters_zone(t2))
    IN
    IF "pickup_time" \notin t.columns THEN
        [raised |-> "KeyError", df |-> t3, report |-> NoZoneReport]
    ELSE
    LET post_toll == Filter(t3, post_toll_mask(t3))
        zone_entries == Filter(post_toll, Column(post_toll, "enters_zone"))
        found == [NoZoneReport EXCEPT !.entries = IndexOf(zone_entries)]
    IN
    IF Len0(zone_entries) = 0 THEN
        [raised |-> "none", df |-> t3, report |-> found]
    ELSE IF "congestion_surcharge" \notin t.columns THEN
        [raised |-> "KeyError", df |-> t3, report |-> found]
    ELSE
    LET compliant == Filter(zone_entries, compliant_mask(zone_entries))
        non_compliant == Filter(zone_entries, non_compliant_mask(zone_entries))
        rate == [found EXCEPT
                    !.printed = {"entries", "compliant", "rate"},
                    !.n_entries = Len0(zone_entries),
                    !.n_compliant = Len0(compliant),
                    !.compliance_rate = Frac(Len0(compliant), Len0(zone_entries))]
    IN
    IF Len0(non_compliant) = 0 THEN
        [raised |-> "none", df |-> t3, report |-> rate]
    ELSE
        [raised |-> "none", df |-> t3,
         report |-> [rate EXCEPT
                        !.printed = @ \cup {"leakage"},
                        !.top_leakage = nlargest(groupby_size(non_compliant), 3)]]

----------------------------------------------------------------------------
(* The tables handed directly to analyze_congestion_zone.  Locations 1, 2, 3   *)
(* and 5 lie outside the zone and 4 inside it.                                 *)

ZoneRow(pu, do, t, s) ==
    [pickup_loc |-> pu, dropoff_loc |-> do, pickup_time |-> t,
     congestion_surcharge |-> s]

ZoneSampleRows ==
    \* trips that enter the zone at the cutoff instant, no surcharge charged
    { ZoneRow(pu, 4, Num(CutoffSeconds), Num(0)) : pu \in {1, 2, 3, 5} }
    \* ... with a surcharge, a negative (refunded) surcharge, a null surcharge
    \cup { ZoneRow(1, 4, Num(CutoffSeconds), s) : s \in {Frac(5, 2), Frac(-5, 2), NaN} }
    \* a trip one second before the cutoff, which does not qualify
    \cup { ZoneRow(1, 4, Num(CutoffSeconds - 1), Num(0)) }

\* every combination of a pickup and dropoff inside or outside the zone, a pickup
\* time before or at the cutoff or null, and a surcharge null, negative, 0 or positive
ZoneWideRows ==
    { ZoneRow(pu, do, t, s) :
        pu \in {1, 2, 4}, do \in {1, 4},
        t \in {NaN, Num(CutoffSeconds - 1), Num(CutoffSeconds)},
        s \in {NaN, Frac(-5, 2), Num(0), Frac(5, 2)} }

----------------------------------------------------------------------------
(* src/scraper.py: TLCScraper.process_file *)

\* column_map: the renames, applied to the columns that are present
column_map ==
    [tpep_pickup_datetime |-> "pickup_time", tpep_dropoff_datetime |-> "dropoff_time",
     lpep_pickup_datetime |-> "pickup_time", lpep_dropoff_datetime |-> "dropoff_time",
     PULocationID |-> "pickup_loc", DOLocationID |-> "dropoff_loc",
     fare_amount |-> "fare", tip_amount |-> "tip"]

keep_cols ==
    {"pickup_time", "dropoff_time", "pickup_loc", "dropoff_loc", "trip_distance",
     "fare", "total_amount", "congestion_surcharge", "tip"}

NewName(c) == IF c \in DOMAIN column_map THEN column_map[c] ELSE c

\* ddf.rename(columns=column_map)[keep_cols]
RenameAndKeep(t) ==
    LET cols == {NewName(c) : c \in t.columns} \cap keep_cols
    IN  Table(cols,
              [i \in DOMAIN t.rows |->
                  Row(t.rows[i].index,
                      [c \in cols |->
                          t.rows[i].data[CHOOSE o \in t.columns : NewName(o) = c]])])

\* .dt.hour, .dt.dayofweek, .dt.month of timestamps in seconds from 2025-01-01 00:00
\* (a Wednesday: dayofweek 2); the inputs lie between December 2024 and February 2025
Hour(series) ==
    [i \in DOMAIN series |->
        IF IsFin(series[i]) THEN Num((series[i].n % 86400) \div 3600) ELSE NaN]
DayOfWeek(series) ==
    [i \in DOMAIN series |->
        IF IsFin(series[i]) THEN Num((2 + (series[i].n \div 86400)) % 7) ELSE NaN]
Month(series) ==
    [i \in DOMAIN series |->
        IF ~IsFin(series[i]) THEN NaN
        ELSE IF series[i].n < 0 THEN Num(12)
        ELSE IF series[i].n \div 86400 < 31 THEN Num(1) ELSE Num(2)]

\* (ddf['dropoff_time'] - ddf['pickup_time']).dt.total_seconds() / 60
trip_duration(t) ==
    [i \in DOMAIN t.rows |->
        Div(Sub(Column(t, "dropoff_time")[i], Column(t, "pickup_time")[i]), Num(60))]

\* variant of avg_speed that guards the division: a zero duration gives a null speed
avg_speed_guarded(t) ==
    [i \in DOMAIN t.rows |->
        IF Eq(Column(t, "trip_duration")[i], Num(0)) THEN NaN
        ELSE Div(Column(t, "trip_distance")[i],
                 Div(Column(t, "trip_duration")[i], Num(60)))]

\* ddf['trip_distance'] / (ddf['trip_duration'] / 60)
avg_speed(t) ==
    [i \in DOMAIN t.rows |->
        Div(Column(t, "trip_distance")[i], Div(Column(t, "trip_duration")[i], Num(60)))]

\* What process_file does to the table read from the raw file: the exception it
\* raises ("none" when it returns) and the table it saves under data/processed.
process_file(t) ==
    LET kept == RenameAndKeep(t)
    IN
    IF "pickup_time" \notin kept.columns THEN [raised |-> "KeyError", out |-> NoTable]
    ELSE
    LET t1 == WithColumn(kept, "hour", Hour(Column(kept, "pickup_time")))
        t2 == WithColumn(t1, "day_of_week", DayOfWeek(Column(t1, "pickup_time")))
        t3 == WithColumn(t2, "month", Month(Column(t2, "pickup_time")))
    IN
    IF "dropoff_time" \notin kept.columns THEN [raised |-> "KeyError", out |-> NoTable]
    ELSE
    LET t4 == WithColumn(t3, "trip_duration", trip_duration(t3))
    IN
    IF "trip_distance" \notin kept.columns THEN [raised |-> "KeyError", out |-> NoTable]
    ELSE [raised |-> "none", out |-> WithColumn(t4, "avg_speed", avg_speed(t4))]

----------------------------------------------------------------------------
(* pipeline.py: create_summary_stats *)

RECURSIVE SumFrom(_, _, _)
\* series.sum() with skipna: the sum of the non-null cells of column c from row i on
SumFrom(t, c, i) ==
    IF i > Len0(t) THEN Num(0)
    ELSE IF IsNaN(t.rows[i].data[c]) THEN SumFrom(t, c, i + 1)
    ELSE Add(t.rows[i].data[c], SumFrom(t, c, i + 1))

ColumnSum(t, c) == SumFrom(t, c, 1)

\* series.mean() with skipna: NaN when no cell is non-null
ColumnMean(t, c) ==
    LET n == Cardinality({i \in DOMAIN t.rows : ~IsNaN(Column(t, c)[i])})
    IN  IF n = 0 THEN NaN ELSE Div(ColumnSum(t, c), Num(n))

NoSummary ==
    [lines |-> 0, total_trips |-> 0, avg_fare |-> NaN, avg_distance |-> NaN,
     avg_speed |-> NaN, total_revenue |-> NaN, total_surcharge |-> NaN]

SummaryColumns == <<"fare", "trip_distance", "avg_speed", "total_amount">>

\* What create_summary_stats(t) does: the exception it raises and what it printed
\* (lines counts the statistics lines written before it returned or raised).
create_summary_stats(t) ==
    LET missing == MissingOf(t, SummaryColumns)
        upto(c) == missing = <<>> \/ (CHOOSE i \in 1..4 : SummaryColumns[i] = c)
                                     < (CHOOSE i \in 1..4 : SummaryColumns[i] = missing[1])
        s1 == [NoSummary EXCEPT !.lines = 1, !.total_trips = Len0(t)]
        s2 == IF upto("fare")
              THEN [s1 EXCEPT !.lines = 2, !.avg_fare = ColumnMean(t, "fare")] ELSE s1
        s3 == IF upto("trip_distance")
              THEN [s2 EXCEPT !.lines = 3, !.avg_distance = ColumnMean(t, "trip_distance")]
              ELSE s2
        s4 == IF upto("avg_speed")
              THEN [s3 EXCEPT !.lines = 4, !.avg_speed = ColumnMean(t, "avg_speed")]
              ELSE s3
        s5 == IF upto("total_amount")
              THEN [s4 EXCEPT !.lines = 5, !.total_revenue = ColumnSum(t, "total_amount")]
              ELSE s4
    IN  IF missing # <<>> THEN [raised |-> "KeyError", summary |-> s5]
        ELSE IF "congestion_surcharge" \in t.columns
        THEN [raised |-> "none",
              summary |-> [s5 EXCEPT !.lines = 6,
                              !.total_surcharge = ColumnSum(t, "congestion_surcharge")]]
        ELSE [raised |-> "none", summary |-> s5]

----------------------------------------------------------------------------
(* The remote monthly file: a raw yellow-taxi table, NumChunks chunks long *)

RawColumns ==
    {"VendorID", "tpep_pickup_datetime", "tpep_dropoff_datetime", "PULocationID",
     "DOLocationID", "trip_distance", "fare_amount", "tip_amount", "total_amount",
     "congestion_surcharge"}

\* trips picked up at the cutoff instant outside the zone and dropped inside it:
\* dropoff is null, or 0, 30 or 600 seconds later
RawRowValues ==
    { [VendorID |-> 1, tpep_pickup_datetime |-> Num(CutoffSeconds),
       tpep_dropoff_datetime |-> dropoff, PULocationID |-> 1, DOLocationID |-> 4,
       trip_distance |-> dist, fare_amount |-> fare, tip_amount |-> Num(0),
       total_amount |-> Num(30), congestion_surcharge |-> sur] :
        dropoff \in {NaN, Num(CutoffSeconds), Num(CutoffSeconds + 30),
                     Num(CutoffSeconds + 600)},
        dist \in {NaN, Num(-5), Num(0), Num(5)},
        fare \in {Num(0), Num(25)},
        sur \in {Num(0), Frac(5, 2)} }

\* the server's file, with and without the congestion_surcharge column
RemoteTables ==
    TablesOver(RawColumns, RawRowValues, MaxRawRows)
    \cup TablesOver(RawColumns \ {"congestion_surcharge"}, RawRowValues, MaxRawRows)

----------------------------------------------------------------------------
(* State *)

NoFile == [exists |-> FALSE, table |-> NoTable]
Saved(t) == [exists |-> TRUE, table |-> t]

\* raw: the chunks written to data/raw/yellow_tripdata_2025-01.parquet, -1 when
\* there is no such file; the file is complete when raw = NumChunks
EmptyFs == [raw |-> -1, processed |-> NoFile, clean |-> NoFile, ghost |-> NoFile]

\* a fresh interpreter: the module-level list as written, nothing computed yet
Fresh ==
    /\ CONGESTION_ZONE_IDS = ZoneIds
    /\ file = "unset"
    /\ df = NoTable
    /\ clean_df = NoTable
    /\ ghost_df = NoTable
    /\ raised = "none"
    /\ ghost_report = NoGhostReport
    /\ zone_report = NoZoneReport
    /\ summary = NoSummary

\* python pipeline.py, on a machine with no downloaded file
Init ==
    /\ pc = "start"
    /\ remote \in RemoteTables
    /\ fs = EmptyFs
    /\ Fresh

\* a call detect_ghost_trips(df): on every table of at most MaxWideRows rows over
\* every combination of cell values, with the four columns or lacking one of them,
\* and on every table of at most MaxRows sample rows
InitGhost ==
    /\ pc = "loaded"
    /\ \/ \E cols \in ColumnSets(GhostColumns) :
             \E k \in 0..MaxWideRows : \E f \in [1..k -> GhostRowValues] :
                df = MakeTable(cols, f)
       \/ \E k \in 0..MaxRows : \E f \in [1..k -> GhostSampleRows] :
             df = MakeTable(Range(GhostColumns), f)
    /\ clean_df = NoTable
    /\ remote = NoTable
    /\ fs = EmptyFs
    /\ CONGESTION_ZONE_IDS = ZoneIds
    /\ file = "unset"
    /\ ghost_df = NoTable
    /\ raised = "none"
    /\ ghost_report = NoGhostReport
    /\ zone_report = NoZoneReport
    /\ summary = NoSummary

\* a call analyze_congestion_zone(clean_df): on every table of at most MaxWideRows
\* rows over every combination of cell values, with the four columns or lacking one
\* of them, and on every table of at most MaxZoneRows sample rows
InitZone ==
    /\ pc = "ghosted"
    /\ \/ \E cols \in ColumnSets(ZoneColumns) :
             \E k \in 0..MaxWideRows : \E f \in [1..k -> ZoneWideRows] :
                clean_df = MakeTable(cols, f)
       \/ \E k \in 0..MaxZoneRows : \E f \in [1..k -> ZoneSampleRows] :
             clean_df = MakeTable(Range(ZoneColumns), f)
    /\ df = NoTable
    /\ remote = NoTable
    /\ fs = EmptyFs
    /\ CONGESTION_ZONE_IDS = ZoneIds
    /\ file = "unset"
    /\ ghost_df = NoTable
    /\ raised = "none"
    /\ ghost_report = NoGhostReport
    /\ zone_report = NoZoneReport
    /\ summary = NoSummary

----------------------------------------------------------------------------
(* Actions *)

After(exception, next) == IF exception = "none" THEN next ELSE "crashed"

\* main, lines 116-120: scraper.download_month(2025, 1, "yellow"), and the return
\* when it gave None
DownloadMonth ==
    /\ pc = "start"
    /\ \/ /\ fs.raw >= 0                 \* filepath.exists(): "already exists"
          /\ fs' = fs
          /\ file' = "filepath"
       \/ /\ fs.raw < 0                  \* requests.get or raise_for_status raises
          /\ fs' = fs
          /\ file' = "None"
       \/ /\ fs.raw < 0                  \* iter_content raises after k chunks
          /\ \E k \in 0..(NumChunks - 1) : fs' = [fs EXCEPT !.raw = k]
          /\ file' = "None"
       \/ /\ fs.raw < 0                  \* every chunk is written
          /\ fs' = [fs EXCEPT !.raw = NumChunks]
          /\ file' = "filepath"
    /\ pc' = IF file' = "None" THEN "exit" ELSE "downloaded"
    /\ UNCHANGED <<CONGESTION_ZONE_IDS, df, clean_df, ghost_df, raised,
                   ghost_report, zone_report, summary, remote>>

\* main, line 123: scraper.process_file(file).  dd.read_parquet of a file that
\* lacks its end (the parquet footer) raises.
ProcessFile ==
    /\ pc = "downloaded"
    /\ IF fs.raw # NumChunks
       THEN /\ raised' = "ArrowInvalid"
            /\ fs' = fs
       ELSE LET r == process_file(remote)
            IN  /\ raised' = r.raised
                /\ fs' = IF r.raised = "none"
                         THEN [fs EXCEPT !.processed = Saved(r.out)] ELSE fs
    /\ pc' = After(raised', "processed")
    /\ UNCHANGED <<CONGESTION_ZONE_IDS, file, df, clean_df, ghost_df,
                   ghost_report, zone_report, summary, remote>>

\* main, line 130: df = pd.read_parquet(processed)
ReadProcessed ==
    /\ pc = "processed"
    /\ df' = fs.processed.table
    /\ pc' = "loaded"
    /\ UNCHANGED <<CONGESTION_ZONE_IDS, fs, file, clean_df, ghost_df, raised,
                   ghost_report, zone_report, summary, remote>>

\* clean_df, ghost_df = detect_ghost_trips(df)
DetectGhostTrips ==
    /\ pc = "loaded"
    /\ LET r == detect_ghost_trips(df)
       IN  /\ raised' = r.raised
           /\ clean_df' = r.clean_df
           /\ ghost_df' = r.ghost_df
           /\ ghost_report' = r.report
    /\ pc' = After(raised', "ghosted")
    /\ UNCHANGED <<CONGESTION_ZONE_IDS, fs, file, df, zone_report, summary, remote>>

\* analyzed_df = analyze_congestion_zone(clean_df): clean_df itself gets the columns
AnalyzeCongestionZone ==
    /\ pc = "ghosted"
    /\ LET r == analyze_congestion_zone(clean_df, CONGESTION_ZONE_IDS)
       IN  /\ raised' = r.raised
           /\ clean_df' = r.df
           /\ zone_report' = r.report
    /\ pc' = After(raised', "analyzed")
    /\ UNCHANGED <<CONGESTION_ZONE_IDS, fs, file, df, ghost_df, ghost_report,
                   summary, remote>>

\* create_summary_stats(analyzed_df)
CreateSummaryStats ==
    /\ pc = "analyzed"
    /\ LET r == create_summary_stats(clean_df)
       IN  /\ raised' = r.raised
           /\ summary' = r.summary
    /\ pc' = After(raised', "summarized")
    /\ UNCHANGED <<CONGESTION_ZONE_IDS, fs, file, df, clean_df, ghost_df,
                   ghost_report, zone_report, remote>>

\* main, lines 144-145: the two to_parquet calls
SaveResults ==
    /\ pc = "summarized"
    /\ fs' = [fs EXCEPT !.clean = Saved(clean_df), !.ghost = Saved(ghost_df)]
    /\ pc' = "exit"
    /\ UNCHANGED <<CONGESTION_ZONE_IDS, file, df, clean_df, ghost_df, raised,
                   ghost_report, zone_report, summary, remote>>

\* python pipeline.py is run again: a fresh interpreter over the same files
RunAgain ==
    /\ pc \in {"exit", "crashed"}
    /\ pc' = "start"
    /\ CONGESTION_ZONE_IDS' = ZoneIds
    /\ file' = "unset"
    /\ df' = NoTable
    /\ clean_df' = NoTable
    /\ ghost_df' = NoTable
    /\ raised' = "none"
    /\ ghost_report' = NoGhostReport
    /\ zone_report' = NoZoneReport
    /\ summary' = NoSummary
    /\ UNCHANGED <<fs, remote>>

Next ==
    \/ DownloadMonth
    \/ ProcessFile
    \/ ReadProcessed
    \/ DetectGhostTrips
    \/ AnalyzeCongestionZone
    \/ CreateSummaryStats
    \/ SaveResults
    \/ RunAgain

Spec == Init /\ [][Next]_vars

NextGhost == DetectGhostTrips

SpecGhost == InitGhost /\ [][NextGhost]_vars

NextZone == AnalyzeCongestionZone

SpecZone == InitZone /\ [][NextZone]_vars

----------------------------------------------------------------------------
(* Properties of detect_ghost_trips, checked under SpecGhost *)

\* how many positions of the sequence s hold x
Occurrences(s, x) == Cardinality({i \in DOMAIN s : s[i] = x})

\* the cell is a known number (or +infinity) above n; a null cell is above nothing
Above(x, n) == x.k = "inf" \/ (x.k = "fin" /\ x.n > n * x.d)
Below(x, n) == x.k = "ninf" \/ (x.k = "fin" /\ x.n < n * x.d)
IsZero(x) == x.k = "fin" /\ x.n = 0

Rule1(d) == Above(d["avg_speed"], 65)
Rule2(d) == Below(d["trip_duration"], 1) /\ Above(d["fare"], 20)
Rule3(d) == IsZero(d["trip_distance"]) /\ Above(d["fare"], 0)

HasGhostColumns(t) == Range(GhostColumns) \subseteq t.columns

\* detect_ghost_trips(df) has returned its pair
GhostReturned == pc = "ghosted"

\* C1: the returned clean and ghost tables partition the input: every input record
\* (null cells or not) is in exactly one of the two, exactly once, and neither table
\* holds a record that is not in the input.
C1_Partition ==
    GhostReturned =>
        /\ \A i \in DOMAIN df.rows :
              Occurrences(clean_df.rows, df.rows[i])
                  + Occurrences(ghost_df.rows, df.rows[i]) = 1
        /\ Range(clean_df.rows) \cup Range(ghost_df.rows) \subseteq Range(df.rows)
        /\ clean_df.columns = df.columns
        /\ ghost_df.columns = df.columns

\* a returned partition with records on both sides, one of them with a null speed
C1_Witness ==
    /\ GhostReturned
    /\ Len0(clean_df) > 0
    /\ Len0(ghost_df) > 0
    /\ \E i \in DOMAIN df.rows : IsNaN(df.rows[i].data["avg_speed"])

\* C2: a record is in the ghost table iff avg_speed > 65, or trip_duration < 1 and
\* fare > 20, or trip_distance == 0 and fare > 0, a comparison with a null counting
\* as false; otherwise it is clean; a record matching several rules is in the ghost
\* table once and is counted in the trigger count of each rule it matches.
C2_GhostIffAnyRule ==
    GhostReturned =>
        /\ \A i \in DOMAIN df.rows :
              LET r == df.rows[i]
                  any == Rule1(r.data) \/ Rule2(r.data) \/ Rule3(r.data)
              IN  /\ Occurrences(ghost_df.rows, r) = (IF any THEN 1 ELSE 0)
                  /\ Occurrences(clean_df.rows, r) = (IF any THEN 0 ELSE 1)
        /\ ghost_report.speed_count =
              Cardinality({i \in DOMAIN df.rows : Rule1(df.rows[i].data)})
        /\ ghost_report.teleport_count =
              Cardinality({i \in DOMAIN df.rows : Rule2(df.rows[i].data)})
        /\ ghost_report.stationary_count =
              Cardinality({i \in DOMAIN df.rows : Rule3(df.rows[i].data)})

\* a returned table with a record that matches all three rules and a clean record
C2_Witness ==
    /\ GhostReturned
    /\ \E i \in DOMAIN df.rows :
          Rule1(df.rows[i].data) /\ Rule2(df.rows[i].data) /\ Rule3(df.rows[i].data)
    /\ Len0(ghost_df) = 1
    /\ Len0(clean_df) > 0
    /\ ghost_report.speed_count = 1
    /\ ghost_report.teleport_count = 1
    /\ ghost_report.stationary_count = 1

\* C7: on every table that has the four columns (also the empty one, the all-ghost
\* and the all-clean ones) detect_ghost_trips raises nothing, returns its pair and
\* has printed the three rule counts and the ghost fraction.
C7_NoErrorWhenWellFormed ==
    (pc # "loaded" /\ HasGhostColumns(df)) =>
        /\ raised = "none"
        /\ GhostReturned
        /\ ghost_report.lines = 4

----------------------------------------------------------------------------
(* Properties of analyze_congestion_zone, checked under SpecZone *)

InZone(loc) == loc \in Range(ZoneIds)

OnOrAfterCutoff(t) == t.k = "inf" \/ (t.k = "fin" /\ t.n >= CutoffSeconds * t.d)

HasZoneColumns(t) == Range(ZoneColumns) \subseteq t.columns

FlagColumns == {"pickup_in_zone", "dropoff_in_zone", "enters_zone"}

\* the positions of the rows of clean_df that qualify: picked up on or after
\* 2025-01-05, outside the zone, and dropped inside it
Qualifying ==
    {i \in DOMAIN clean_df.rows :
        LET d == clean_df.rows[i].data
        IN  /\ OnOrAfterCutoff(d["pickup_time"])
            /\ ~InZone(d["pickup_loc"])
            /\ InZone(d["dropoff_loc"])}

\* the qualifying rows that were charged: congestion_surcharge > 0
Charged == {i \in Qualifying : Above(clean_df.rows[i].data["congestion_surcharge"], 0)}

\* analyze_congestion_zone(clean_df) has been called
ZoneCalled == pc # "ghosted"

\* it has returned
ZoneReturned == pc = "analyzed"

\* C3: the qualifying set is exactly the records picked up on or after 2025-01-05
\* outside the zone and dropped inside it; when it is not empty the compliance rate
\* is (qualifying records with congestion_surcharge > 0) / (qualifying records),
\* a number in [0, 1].
C3_ComplianceRate ==
    (ZoneReturned /\ HasZoneColumns(clean_df)) =>
        /\ Range(zone_report.entries) = {clean_df.rows[i].index : i \in Qualifying}
        /\ Len(zone_report.entries) = Cardinality(Qualifying)
        /\ Qualifying # {} =>
              /\ "rate" \in zone_report.printed
              /\ zone_report.compliance_rate
                    = Frac(Cardinality(Charged), Cardinality(Qualifying))
              /\ zone_report.compliance_rate.n >= 0
              /\ zone_report.compliance_rate.n <= zone_report.compliance_rate.d

\* a rate strictly between 0 and 1, over a table that also has a record that does
\* not qualify
C3_Witness ==
    /\ ZoneReturned
    /\ HasZoneColumns(clean_df)
    /\ Cardinality(Qualifying) = 3
    /\ Len0(clean_df) = 4
    /\ zone_report.compliance_rate = Frac(1, 3)

\* C4: when no record qualifies, analyze_congestion_zone divides nothing by zero
\* and reports the compliance rate to its caller as an explicit undefined / N/A
\* value: it does not fail, report zero or report nothing.
C4_EmptyReportsNA ==
    (ZoneCalled /\ HasZoneColumns(clean_df) /\ Qualifying = {}) =>
        /\ raised = "none"
        /\ "rate" \in zone_report.printed
        /\ IsNaN(zone_report.compliance_rate)

\* the number of qualifying records picked up at loc that are not compliant, where
\* not compliant means: congestion_surcharge is not > 0
Leaks(loc) ==
    Cardinality({i \in Qualifying \ Charged :
                    clean_df.rows[i].data["pickup_loc"] = loc})

LeakLocations == {clean_df.rows[i].data["pickup_loc"] : i \in Qualifying \ Charged}

\* C5: the leakage ranking covers every qualifying record that is not compliant
\* (congestion_surcharge not > 0), grouped by pickup_loc and counted: it lists at
\* most 3 locations with their counts, in descending order of count and, for equal
\* counts, ascending location, and no omitted location has a higher count than a
\* listed one.
C5_LeakageRanking ==
    (ZoneReturned /\ HasZoneColumns(clean_df) /\ Qualifying # {}) =>
        LET L == zone_report.top_leakage
            listed == {L[j].loc : j \in DOMAIN L}
        IN  /\ Len(L) <= 3
            /\ Cardinality(listed) = Len(L)
            /\ \A j \in DOMAIN L : L[j].count = Leaks(L[j].loc) /\ L[j].count > 0
            /\ \A j, k \in DOMAIN L :
                  j < k => \/ L[j].count > L[k].count
                           \/ (L[j].count = L[k].count /\ L[j].loc < L[k].loc)
            /\ \A loc \in LeakLocations \ listed :
                  /\ Len(L) = 3
                  /\ \A j \in DOMAIN L : L[j].count >= Leaks(loc)

\* C6: when a required column is absent the operation always signals a failure to
\* its caller, whatever the table holds (also when no record qualifies), before any
\* partial computation: nothing is returned or reported and the table gets no column.
C6_MissingColumnFailsFirst ==
    (ZoneCalled /\ ~HasZoneColumns(clean_df)) =>
        /\ raised = "KeyError"
        /\ clean_df.columns \cap FlagColumns = {}
        /\ zone_report = NoZoneReport

----------------------------------------------------------------------------
(* Properties of the pipeline (main), checked under Spec *)

\* main has called detect_ghost_trips on the table process_file produced
DetectCalled == pc # "loaded" /\ df # NoTable

IndexSet(t) == {t.rows[i].index : i \in DOMAIN t.rows}

\* the rows of df whose trip_duration is 0
ZeroDurationRows == {i \in DOMAIN df.rows : IsZero(df.rows[i].data["trip_duration"])}

\* C8 as stated: a record with trip_duration == 0 does not crash detect_ghost_trips
\* and is not flagged by rule 1, its non-finite speed counting as not > 65: it is
\* ghost only if rule 2 or rule 3 fires, and clean otherwise.
C8_ZeroDurationNeverRule1 ==
    DetectCalled =>
        \A i \in ZeroDurationRows :
            LET r == df.rows[i]
            IN  /\ ghost_report.lines = 4
                /\ ~Rule1(r.data)
                /\ r.index \in IndexSet(ghost_df) <=> (Rule2(r.data) \/ Rule3(r.data))
                /\ r.index \in IndexSet(clean_df) <=> ~(Rule2(r.data) \/ Rule3(r.data))

\* C8 as amended: a record with trip_duration == 0 does not crash
\* detect_ghost_trips; process_file gives it the speed +inf when trip_distance > 0,
\* -inf when trip_distance < 0 and NaN when trip_distance is 0 or null; +inf counts
\* as > 65, so the record is ghost iff trip_distance > 0 or rule 2 or rule 3 fires,
\* and clean otherwise.
C8_ZeroDurationInfiniteSpeed ==
    DetectCalled =>
        \A i \in ZeroDurationRows :
            LET r == df.rows[i]
                dist == r.data["trip_distance"]
                any == Above(dist, 0) \/ Rule2(r.data) \/ Rule3(r.data)
            IN  /\ ghost_report.lines = 4
                /\ r.data["avg_speed"] =
                      (IF Above(dist, 0) THEN PosInf
                       ELSE IF Below(dist, 0) THEN NegInf ELSE NaN)
                /\ Rule1(r.data) <=> Above(dist, 0)
                /\ r.index \in IndexSet(ghost_df) <=> any
                /\ r.index \in IndexSet(clean_df) <=> ~any

\* a zero-duration record over 5 miles with fare 0: no rule but rule 1 can flag it,
\* and it is in the ghost table
C8_Witness ==
    /\ DetectCalled
    /\ \E i \in ZeroDurationRows :
          /\ df.rows[i].data["trip_distance"] = Num(5)
          /\ df.rows[i].data["fare"] = Num(0)
          /\ df.rows[i].index \in IndexSet(ghost_df)

\* C9 as stated: the zone set is 64 distinct integer identifiers and no operation
\* of the pipeline changes it.
C9_ZoneSetIs64 ==
    /\ Len(CONGESTION_ZONE_IDS) = 64
    /\ Cardinality(Range(CONGESTION_ZONE_IDS)) = 64
    /\ CONGESTION_ZONE_IDS = ZoneIds

\* C9 as amended: the zone set is 67 distinct integer identifiers and no operation
\* of the pipeline (detect_ghost_trips, analyze_congestion_zone,
\* create_summary_stats, main) changes it.
C9_ZoneSetIs67 ==
    /\ Len(CONGESTION_ZONE_IDS) = 67
    /\ Cardinality(Range(CONGESTION_ZONE_IDS)) = 67
    /\ Range(CONGESTION_ZONE_IDS) \subseteq Int
    /\ CONGESTION_ZONE_IDS = ZoneIds

\* main has run to its end, through every operation, and the list is as it was
C9_Witness ==
    /\ pc = "exit"
    /\ fs.clean.exists
    /\ summary.lines > 0
    /\ "rate" \in zone_report.printed
    /\ Len(CONGESTION_ZONE_IDS) = 67

\* C10: download_month returns the file path only when the file holds the complete
\* content, and a call that fails returns None and leaves no file at the path (so
\* the next call downloads again).
C10_PathOnlyWhenComplete ==
    /\ file = "filepath" => fs.raw = NumChunks
    /\ file = "None" => fs.raw = -1

====
